---- MODULE Spec2Model ----
(***************************************************************************)
(* Model of coupling/powerplant.py: the power plant model class `model`    *)
(* (construction, design point layout, get_mass_flow, get_power) and the   *)
(* lookup-table helpers reverse_2d, reverse_2d_deriv and newton.           *)
(*                                                                         *)
(* Numbers are fixed-point integers in units of 1e-5 (the smallest literal *)
(* of the source, the tolerance of newton), so that the 1e-4 pressure and  *)
(* mass flow margins and the 1e-3 residual limit are whole numbers.        *)
(***************************************************************************)
EXTENDS Integers, Sequences, FiniteSets, TLC

\* 1e-5: `while abs(res) >= 1e-5` in newton, `< 1e-5` in get_power (spline)
Tol == 1
\* 1.0
One == 100000 * Tol
\* 1e-4: margin of the pressure checks and of the mass flow checks of get_power
Margin == 10 * Tol
\* 1e-3: limit of the solver residual res[-1] in get_mass_flow
ResLimit == 100 * Tol
\* relative tolerance 1e-5 of the forward check of get_power (spline), as 1 / RelTolDen
RelTolDen == One

\* default values of newton
Val0 == 200 * One
ValMin == 0
ValMax == 3000 * One
IMax == 10

abs(x) == IF x < 0 THEN -x ELSE x

\* float division x / y on the fixed-point grid: the nearest grid value
\* (exact whenever y divides x, which holds for the surfaces below)
Div(x, y) ==
    LET n == IF y < 0 THEN -x ELSE x
        d == abs(y)
    IN IF n >= 0 THEN (2 * n + d) \div (2 * d) ELSE -((2 * (-n) + d) \div (2 * d))

\* a * b / c for a rational factor b / c (massflow_min_rel is <<num, den>>)
Scale(q, x) == Div(q[1] * x, q[2])

Last(s) == s[Len(s)]
Reverse(s) == [i \in 1..Len(s) |-> s[Len(s) + 1 - i]]

(***************************************************************************)
(* Return values and exceptions of the entry points.                       *)
(***************************************************************************)
\* `return a, b`
Tuple(a, b) == [kind |-> "tuple", val |-> <<a, b>>, exc |-> "", msg |-> ""]
\* `return a`
Value(a) == [kind |-> "value", val |-> <<a>>, exc |-> "", msg |-> ""]
\* `raise exc(msg)`, or an exception that leaves the call
Raise(e, msg) == [kind |-> "raise", val |-> <<>>, exc |-> e, msg |-> msg]

\* an attribute of a bus, connection or component of a tespy network:
\* set to a value, or free (np.nan)
Set(v) == [is_set |-> TRUE, val |-> v]
NaN == [is_set |-> FALSE, val |-> 0]

(***************************************************************************)
(* Lookup tables (spline method).  A table is the .csv data: the mass flow *)
(* axis x1 (index), the pressure axis x2 (columns) and the power values y  *)
(* (y[i][j] at x1[i], x2[j]).  The tables of the model are samples of a    *)
(* plane, which the bivariate spline reproduces exactly; outside of the    *)
(* table the spline is evaluated at the nearest boundary point.            *)
(***************************************************************************)
load_lookup(df) ==
    LET x1a == df.x1
        ya == df.y
        flip1 == x1a[1] > Last(x1a)
        x1 == IF flip1 THEN Reverse(x1a) ELSE x1a
        y1 == IF flip1 THEN Reverse(ya) ELSE ya
        x2a == df.x2
        flip2 == x2a[1] > Last(x2a)
        x2 == IF flip2 THEN Reverse(x2a) ELSE x2a
        y == IF flip2 THEN [i \in 1..Len(y1) |-> Reverse(y1[i])] ELSE y1
    IN [x1 |-> x1, x2 |-> x2, y |-> y]

Clamp(v, lo, hi) == IF v < lo THEN lo ELSE IF v > hi THEN hi ELSE v

\* func.ev(x, y, dx): the fitted surface at mass flow x and pressure y,
\* or (dx = 1) its partial derivative along the mass flow axis
ev(func, x, y, dx) ==
    LET n1 == Len(func.x1)
        n2 == Len(func.x2)
        a == Div(func.y[n1][1] - func.y[1][1], func.x1[n1] - func.x1[1])
        b == Div(func.y[1][n2] - func.y[1][1], func.x2[n2] - func.x2[1])
        xc == Clamp(x, func.x1[1], func.x1[n1])
        yc == Clamp(y, func.x2[1], func.x2[n2])
    IN IF dx = 0
       THEN func.y[1][1] + a * (xc - func.x1[1]) + b * (yc - func.x2[1])
       ELSE a

reverse_2d(params, y) ==
    LET func == params[1]
        x1 == params[2]
        x2 == params[3]
    IN x2 - ev(func, y, x1, 0)

reverse_2d_deriv(params, y) ==
    LET func == params[1]
        x1 == params[2]
    IN - ev(func, y, x1, 1)

\* func(params, val) for the function objects handed to newton: the reverse
\* functions of the lookup table, and a function and a derivative given by
\* their values (params[1], params[2]) at the points val can take
Call(f, params, y) ==
    CASE f = "reverse_2d" -> reverse_2d(params, y)
      [] f = "reverse_2d_deriv" -> reverse_2d_deriv(params, y)
      [] f = "values" -> params[1][y]
      [] f = "values_deriv" -> params[2][y]

\* the while loop of newton: val, res and i at the loop test.  kw holds
\* valmin, valmax, imax and tol, the 1e-5 of the loop test in the unit of the
\* values of func.  The result keeps the last residual computed.
RECURSIVE newton_while(_, _, _, _, _, _, _, _)
newton_while(func, deriv, params, k, kw, val, res, i) ==
    IF abs(res) >= kw.tol
    THEN LET res1 == k - Call(func, params, val)
             val1 == val + Div(res1, Call(deriv, params, val))
             val2 == IF val1 < kw.valmin THEN kw.valmin ELSE val1
             val3 == IF val2 > kw.valmax THEN kw.valmax ELSE val2
             i1 == i + 1
         IN IF i1 > kw.imax
            THEN [val |-> 0, converged |-> FALSE, i |-> i1, res |-> res1]
            ELSE newton_while(func, deriv, params, k, kw, val3, res1, i1)
    ELSE [val |-> val, converged |-> TRUE, i |-> i, res |-> res]

\* the loop with the default keyword values
newton_loop(func, deriv, params, k, val, res, i) ==
    newton_while(func, deriv, params, k,
                 [valmin |-> ValMin, valmax |-> ValMax, imax |-> IMax, tol |-> Tol],
                 val, res, i)

\* newton(func, deriv, params, k) with the default keyword values
newton(func, deriv, params, k) ==
    newton_loop(func, deriv, params, k, Val0, One, 0)

\* newton(func, deriv, params, k, val0=, valmin=, valmax=, imax=)
newton_kwargs(func, deriv, params, k, kw) ==
    newton_while(func, deriv, params, k, kw, kw.val0, One, 0)

(***************************************************************************)
(* The plant behind both evaluation methods.  Bus power of the charging    *)
(* and discharging network as a function of the storage mass flow m and    *)
(* the interface pressure p (a plane, PlantRef being the nominal           *)
(* pressure); the lookup tables are samples of the same planes.            *)
(***************************************************************************)
PlantRef == 100 * One
PlantSlope(which) == IF which = "charge" THEN [m |-> -5, p |-> -1] ELSE [m |-> 2, p |-> 1]
plant_power(which, m, p) == PlantSlope(which).m * m + PlantSlope(which).p * (p - PlantRef)
plant_mass_flow(which, P, p) == Div(P - PlantSlope(which).p * (p - PlantRef), PlantSlope(which).m)

\* axes of the lookup tables: mass flow 0 .. 250, pressure 80 .. 120
TableX1 == <<0, 250 * One>>
TableX2 == <<80 * One, 120 * One>>
\* <scenario>.spline_charge.csv: both axes ascending
ChargeTable ==
    [x1 |-> TableX1, x2 |-> TableX2,
     y |-> [i \in 1..2 |-> [j \in 1..2 |-> plant_power("charge", TableX1[i], TableX2[j])]]]
\* <scenario>.spline_discharge.csv: both axes descending
DischargeTable ==
    [x1 |-> Reverse(TableX1), x2 |-> Reverse(TableX2),
     y |-> [i \in 1..2 |-> [j \in 1..2 |->
              plant_power("discharge", Reverse(TableX1)[i], Reverse(TableX2)[j])]]]

(***************************************************************************)
(* The control file <scenario>.powerplant_ctrl.json and the arguments of   *)
(* the constructor.                                                        *)
(***************************************************************************)
Methods == {"tespy", "spline", "lut"}
ControlFile(method) ==
    [method |-> method,
     p_nom |-> PlantRef,
     power_nominal_charge |-> -50 * One,
     power_nominal_discharge |-> 20 * One,
     massflow_charge_max |-> 20 * One,
     massflow_discharge_max |-> 16 * One,
     massflow_min_rel |-> <<1, 10>>]
ArgPMin == 90 * One
ArgPMax == 110 * One
ArgMinWellDepth == 700 * One

(***************************************************************************)
(* State.                                                                  *)
(*   pc     position of the instance: "new", "ready" (constructed) or      *)
(*          "failed" (the constructor raised)                              *)
(*   self   the attributes of the instance, the two tespy networks among   *)
(*          them                                                           *)
(*   files  the design states saved below self.wdir                        *)
(*   env    what the surroundings decide: the control file's method,       *)
(*          whether the module knows the name wdir, and where the solver   *)
(*          fails                                                          *)
(*   ret    the last call of an entry point and what it returned           *)
(*   hist   the first get_mass_flow call of the instance (SpecHist only)   *)
(***************************************************************************)
VARIABLES pc, self, files, env, ret, hist
vars == <<pc, self, files, env, ret, hist>>

\* a tespy network, as far as it lasts from one call to the next: the length
\* L set on its bore hole pipe.  The power P of its bus and the pressure p and
\* mass flow m of its storage connection are set anew before every solve, and
\* the results of a solve are read only in the call that ran it: they are the
\* arguments and the result of solve below.
Network == [L |-> NaN]

\* a saved network state: the network it is the state of, its pipe length,
\* the attributes it was solved for and the mass flow it converged to
NoFile == [nw |-> "none", L |-> NaN, P |-> NaN, p |-> NaN, m_val |-> 0]
SavedState(which, nw, P, p, s) == [nw |-> which, L |-> nw.L, P |-> P, p |-> p, m_val |-> s.m_val]

\* network.solve(mode) on network `which` with bus power P, pressure p and
\* mass flow m set (or free): the external solver.  It needs the state it is
\* seeded with (ref), raises or stops short of convergence where env.fault
\* says so, and otherwise converges to the plant's operating point: m.val_SI,
\* P.val and the residual res[-1].
solve(which, mode, ref, P, p, m) ==
    LET hit == p.is_set /\ p.val = env.fault.at
        determined == p.is_set /\ (P.is_set # m.is_set)
        err == IF hit /\ env.fault.kind = "noconv" THEN 10 * ResLimit ELSE 0
    IN IF (mode = "offdesign" /\ ref.nw = "none") \/ ~determined
          \/ (hit /\ env.fault.kind = "raise")
       THEN [raised |-> TRUE, m_val |-> 0, P_val |-> 0, res |-> 0]
       ELSE IF P.is_set
       THEN [raised |-> FALSE, m_val |-> plant_mass_flow(which, P.val, p.val) + err,
             P_val |-> P.val, res |-> err]
       ELSE [raised |-> FALSE, m_val |-> m.val,
             P_val |-> plant_power(which, m.val, p.val) + err, res |-> err]

(***************************************************************************)
(* class model                                                             *)
(***************************************************************************)
\* the attributes of an instance before __init__ has run
NoInstance ==
    [min_well_depth |-> 0, num_wells |-> 0, p_max |-> 0, p_min |-> 0,
     method |-> "", p_nom |-> 0,
     power_nominal_charge |-> 0, power_nominal_discharge |-> 0,
     massflow_charge_max |-> 0, massflow_discharge_max |-> 0,
     massflow_min_rel |-> <<0, 1>>,
     tespy_charge |-> Network, tespy_discharge |-> Network,
     spline_charge |-> load_lookup(ChargeTable),
     spline_discharge |-> load_lookup(ChargeTable),
     has_cas_charge |-> FALSE, has_cas_discharge |-> FALSE]

\* what a method hands back: its return value (or exception), the instance as
\* it leaves it, and two counts kept for the properties: the get_power calls
\* and the solver runs it made.
\* py_int marks the Python int 0 of newton's `return 0` (a converged newton hands
\* back a numpy value).
Out(r, slf, nget, nsolve) ==
    [ret |-> r, self |-> slf, get_power |-> nget, solves |-> nsolve, py_int |-> FALSE]

\* power_plant_layout(self): the design point of both networks.
\* Hands back the instance, the files saved and whether a solve raised.
power_plant_layout(slf, fs) ==
    LET \* charging
        c1 == [slf.tespy_charge EXCEPT !.L = Set(slf.min_well_depth)]
        sc == solve("charge", "design", NoFile,
                    Set(slf.power_nominal_charge), Set(slf.p_nom), NaN)
        fs1 == [fs EXCEPT !["charge_design"] =
                   SavedState("charge", c1, Set(slf.power_nominal_charge), Set(slf.p_nom), sc)]
        \* discharging: the pipe that is set and the network that is saved
        \* are those of self.tespy_charge
        c2 == [c1 EXCEPT !.L = Set(slf.min_well_depth)]
        sd == solve("discharge", "design", NoFile,
                    Set(slf.power_nominal_discharge), Set(slf.p_nom), NaN)
        fs2 == [fs1 EXCEPT !["discharge_design"] =
                   SavedState("charge", c2, Set(slf.power_nominal_charge), Set(slf.p_nom), sc)]
    IN IF sc.raised
       THEN [raised |-> TRUE, self |-> [slf EXCEPT !.tespy_charge = c1], files |-> fs]
       ELSE IF sd.raised
       THEN [raised |-> TRUE, self |-> [slf EXCEPT !.tespy_charge = c2], files |-> fs1]
       ELSE [raised |-> FALSE, self |-> [slf EXCEPT !.tespy_charge = c2], files |-> fs2]

\* the pressure checks both entry points start with
pressure_below(slf, pressure) == pressure + Margin < slf.p_min
\* pressure_above with the margin of the residual check (1e-3) in place of 1e-4
pressure_above_wide(slf, pressure) == pressure - ResLimit > slf.p_max
pressure_above(slf, pressure) == pressure - Margin > slf.p_max

RECURSIVE get_power(_, _, _, _)
RECURSIVE get_mass_flow(_, _, _, _)

\* get_mass_flow, method 'tespy', one mode: which is the network of the mode
get_mass_flow_tespy(slf, power, pressure, mode, which) ==
    LET charging == which = "charge"
        nominal == IF charging THEN slf.power_nominal_charge ELSE slf.power_nominal_discharge
        m_max == IF charging THEN slf.massflow_charge_max ELSE slf.massflow_discharge_max
        design_path == IF charging THEN "charge_design" ELSE "discharge_design"
        \* set power of bus and pressure at interface, mass flow free
        s == solve(which, "offdesign", files[design_path], Set(power), Set(pressure), NaN)
        has_cas == IF charging THEN slf.has_cas_charge ELSE slf.has_cas_discharge
        g == get_power(slf, m_max, pressure, mode)
    IN IF abs(power) < abs(Div(nominal, 100))
       THEN Out(Tuple(0, 0), slf, 0, 0)
       ELSE IF s.raised
       THEN Out(Tuple(0, 0), slf, 0, 1)
       ELSE IF s.res > ResLimit
       THEN Out(Tuple(0, 0), slf, 0, 1)
       \* self.cas_charge / self.cas_discharge exists only once get_power has
       \* set it: the AttributeError is caught by the bare except
       ELSE IF ~has_cas
       THEN Out(Tuple(0, 0), slf, 0, 1)
       ELSE IF s.m_val < Scale(slf.massflow_min_rel, m_max)
       THEN Out(Tuple(0, 0), slf, 0, 1)
       ELSE IF s.m_val > m_max
       THEN IF g.ret.kind = "raise"
            THEN Out(Tuple(0, 0), g.self, g.get_power, 1 + g.solves)
            ELSE Out(Tuple(m_max, g.ret.val[1]), g.self, g.get_power, 1 + g.solves)
       ELSE Out(Tuple(s.m_val, power), slf, 0, 1)

\* get_mass_flow_spline with a final `else` in place of `elif mode ==
\* 'discharging'`: any other mode is taken for discharging
get_mass_flow_spline_else(slf, power, pressure, mode) ==
    LET func == IF mode = "charging" THEN slf.spline_charge ELSE slf.spline_discharge
        power1 == IF mode = "charging" THEN power ELSE -power
        mass_flow == newton("reverse_2d", "reverse_2d_deriv", <<func, pressure, power1>>, 0)
    IN [Out(Value(mass_flow.val), slf, 0, 0) EXCEPT !.py_int = ~mass_flow.converged]

\* get_mass_flow, method 'spline'
get_mass_flow_spline(slf, power, pressure, mode) ==
    LET func == IF mode = "charging" THEN slf.spline_charge ELSE slf.spline_discharge
        power1 == IF mode = "charging" THEN power ELSE -power
        mass_flow == newton("reverse_2d", "reverse_2d_deriv", <<func, pressure, power1>>, 0)
    IN IF mode \notin {"charging", "discharging"}
       THEN Out(Raise("ValueError", "Mode must be charging or discharging."), slf, 0, 0)
       ELSE [Out(Value(mass_flow.val), slf, 0, 0) EXCEPT !.py_int = ~mass_flow.converged]

get_mass_flow(slf, power, pressure, mode) ==
    IF pressure_below(slf, pressure)
    THEN Out(Tuple(0, 0), slf, 0, 0)
    ELSE IF pressure_above(slf, pressure)
    THEN Out(Tuple(0, 0), slf, 0, 0)
    ELSE IF slf.method = "tespy"
    THEN IF mode = "charging"
         THEN get_mass_flow_tespy(slf, power, pressure, mode, "charge")
         ELSE IF mode = "discharging"
         THEN get_mass_flow_tespy(slf, power, pressure, mode, "discharge")
         ELSE Out(Raise("ValueError", "Mode must be charging or discharging."), slf, 0, 0)
    ELSE IF slf.method = "spline"
    THEN get_mass_flow_spline(slf, power, pressure, mode)
    ELSE Out(Raise("ValueError", "Method must be tespy or spline."), slf, 0, 0)

\* get_power, method 'tespy', one mode: which is the network of the mode
get_power_tespy(slf, massflow, pressure, mode, which) ==
    LET charging == which = "charge"
        m_max == IF charging THEN slf.massflow_charge_max ELSE slf.massflow_discharge_max
        m_min == Scale(slf.massflow_min_rel, m_max)
        init_file == IF charging THEN "tespy_charge/results.csv"
                                 ELSE "tespy_discharge/results.csv"
        \* set mass flow and pressure at interface, bus power free;
        \* self.cas_charge / self.cas_discharge is looked up on the first call
        s == solve(which, "offdesign", files[init_file], NaN, Set(pressure), Set(massflow))
        slf1 == IF charging THEN [slf EXCEPT !.has_cas_charge = TRUE]
                            ELSE [slf EXCEPT !.has_cas_discharge = TRUE]
        g == get_power(slf, m_max, pressure, mode)
    IN IF massflow < m_min - Margin
       THEN Out(Value(0), slf, 1, 0)
       ELSE IF massflow > m_max + Margin
       THEN Out(g.ret, g.self, 1 + g.get_power, g.solves)
       ELSE IF s.raised
       THEN Out(Raise("TESPyNetworkError", ""), slf1, 1, 1)
       ELSE Out(Value(s.P_val), slf1, 1, 1)

\* get_power, method 'spline'
get_power_spline(slf, massflow, pressure, mode) ==
    LET func == IF mode = "charging" THEN slf.spline_charge ELSE slf.spline_discharge
        val == ev(func, massflow, pressure, 0)
        g == get_mass_flow(slf, val, pressure, mode)
        back == g.ret.val[1]
    IN IF mode \notin {"charging", "discharging"}
       THEN Out(Raise("ValueError", "Mode must be charge or discharge."), slf, 1, 0)
       \* (0 - 0.0) / 0.0 raises; a numpy value divided by 0.0 is inf or nan,
       \* and the comparison is False
       ELSE IF massflow = 0
       THEN IF g.py_int
            THEN Out(Raise("ZeroDivisionError", ""), slf, 1, 0)
            ELSE Out(Value(0), slf, 1, 0)
       ELSE IF abs(back - massflow) <= (abs(massflow) - 1) \div RelTolDen
       THEN Out(Value(val), slf, 1, 0)
       ELSE Out(Value(0), slf, 1, 0)

get_power(slf, massflow, pressure, mode) ==
    IF pressure_below(slf, pressure)
    THEN Out(Value(0), slf, 1, 0)
    ELSE IF pressure_above(slf, pressure)
    THEN Out(Value(0), slf, 1, 0)
    ELSE IF slf.method = "tespy"
    THEN IF mode = "charging"
         THEN get_power_tespy(slf, massflow, pressure, mode, "charge")
         ELSE IF mode = "discharging"
         THEN get_power_tespy(slf, massflow, pressure, mode, "discharge")
         ELSE Out(Raise("ValueError", "Mode must be charge or discharge."), slf, 1, 0)
    ELSE IF slf.method = "spline"
    THEN get_power_spline(slf, massflow, pressure, mode)
    ELSE Out(Raise("ValueError", "Method must be tespy or spline."), slf, 1, 0)

(***************************************************************************)
(* The arguments the entry points are called with.                         *)
(***************************************************************************)
Modes == {"charging", "discharging", "idle"}
\* out of range below, the lowest pressure accepted, nominal, the highest
\* pressure accepted, out of range above
Pressures == {ArgPMin - Margin - Tol, ArgPMin - Margin, PlantRef,
              ArgPMax + Margin, ArgPMax + Margin + Tol}
InRange(pressure) == ~(pressure + Margin < ArgPMin) /\ ~(pressure - Margin > ArgPMax)
\* mass flows: none, around the lower limit (2), around the upper limits
\* (16 discharging, 20 charging) and multiples of 10 between
MassSteps == 1
Masses == {0, 2 * One - Margin - Tol, 2 * One - Margin,
           16 * One + Margin + Tol, 20 * One + Margin, 20 * One + Margin + Tol}
          \cup {k * 10 * One : k \in 1..MassSteps}
\* powers: below 1 % of the nominal power, and the plant's power at nominal
\* pressure for a mass flow below the lower limit (1), above the upper limits
\* (25) and multiples of 10 between
Powers == {-(One \div 10)}
          \cup {plant_power(which, m, PlantRef) :
                   which \in {"charge", "discharge"},
                   m \in {One, 25 * One} \cup {k * 10 * One : k \in 1..MassSteps}}

Faults ==
    {[kind |-> "none", at |-> 0]}
    \cup {[kind |-> k, at |-> p] : k \in {"raise", "noconv"},
                                    p \in {p \in Pressures : InRange(p)}}
Envs == [method : Methods, wdir_defined : BOOLEAN, fault : Faults]

Paths == {"charge_design", "discharge_design",
          "tespy_charge/results.csv", "tespy_discharge/results.csv"}
\* the exported networks that nwkr.load_nwk reads hold their results.csv
FilesAtStart ==
    [f \in Paths |->
        IF f = "tespy_charge/results.csv" THEN [NoFile EXCEPT !.nw = "charge"]
        ELSE IF f = "tespy_discharge/results.csv" THEN [NoFile EXCEPT !.nw = "discharge"]
        ELSE NoFile]

NoCall == [op |-> "", args |-> <<0, 0, "">>, out |-> Value(0), get_power |-> 0, solves |-> 0]
Called(op, args, o) ==
    [op |-> op, args |-> args, out |-> o.ret, get_power |-> o.get_power, solves |-> o.solves]

Init ==
    /\ pc = "new"
    /\ self = NoInstance
    /\ files = FilesAtStart
    /\ env \in Envs
    /\ ret = NoCall
    /\ hist = NoCall

\* model(cd, min_well_depth, num_wells, p_max, p_min): __init__.
\* The name wdir of lines 76 to 82 is no local of __init__: it resolves only
\* if the module has a global of that name.
init ==
    /\ pc = "new"
    /\ LET cf == ControlFile(env.method)
           slf0 == [self EXCEPT !.min_well_depth = ArgMinWellDepth, !.num_wells = 1,
                                !.p_max = ArgPMax, !.p_min = ArgPMin,
                                !.method = cf.method, !.p_nom = cf.p_nom,
                                !.power_nominal_charge = cf.power_nominal_charge,
                                !.power_nominal_discharge = cf.power_nominal_discharge,
                                !.massflow_charge_max = cf.massflow_charge_max,
                                !.massflow_discharge_max = cf.massflow_discharge_max,
                                !.massflow_min_rel = cf.massflow_min_rel]
           lay == power_plant_layout(slf0, files)
       IN IF ~env.wdir_defined
          THEN /\ pc' = "failed"
               /\ self' = slf0
               /\ files' = files
               /\ ret' = [NoCall EXCEPT !.op = "__init__", !.out = Raise("NameError", "")]
          ELSE IF lay.raised
          THEN /\ pc' = "failed"
               /\ self' = lay.self
               /\ files' = lay.files
               /\ ret' = [NoCall EXCEPT !.op = "__init__", !.out = Raise("TESPyNetworkError", "")]
          ELSE /\ pc' = "ready"
               /\ self' = [lay.self EXCEPT !.spline_charge = load_lookup(ChargeTable),
                                           !.spline_discharge = load_lookup(DischargeTable)]
               /\ files' = lay.files
               /\ ret' = [NoCall EXCEPT !.op = "__init__"]
    /\ UNCHANGED <<env, hist>>

\* a call self.get_mass_flow(power, pressure, mode) of the coupling loop
do_get_mass_flow(power, pressure, mode) ==
    LET o == get_mass_flow(self, power, pressure, mode)
    IN /\ pc = "ready"
       /\ self' = o.self
       /\ ret' = Called("get_mass_flow", <<power, pressure, mode>>, o)
       /\ UNCHANGED <<pc, files, env>>

\* a call self.get_power(massflow, pressure, mode) of the coupling loop
do_get_power(massflow, pressure, mode) ==
    LET o == get_power(self, massflow, pressure, mode)
    IN /\ pc = "ready"
       /\ self' = o.self
       /\ ret' = Called("get_power", <<massflow, pressure, mode>>, o)
       /\ UNCHANGED <<pc, files, env>>

call_get_mass_flow ==
    /\ \E power \in Powers, pressure \in Pressures, mode \in Modes :
          do_get_mass_flow(power, pressure, mode)
    /\ UNCHANGED hist

call_get_power ==
    /\ \E massflow \in Masses, pressure \in Pressures, mode \in Modes :
          do_get_power(massflow, pressure, mode)
    /\ UNCHANGED hist

Next ==
    \/ init
    \/ call_get_mass_flow
    \/ call_get_power

Spec == Init /\ [][Next]_vars

(***************************************************************************)
(* The same instance with the first get_mass_flow call kept in hist, for   *)
(* properties that compare two calls.  The calls are those at the nominal  *)
(* and at the highest accepted pressure, with the nominal powers and the   *)
(* mass flow 10, in the two valid modes.                                   *)
(***************************************************************************)
HistPressures == {PlantRef, ArgPMax + Margin}
HistPowers == {ControlFile("tespy").power_nominal_charge,
               ControlFile("tespy").power_nominal_discharge}
HistMasses == {10 * One}
HistModes == {"charging", "discharging"}

first_get_mass_flow ==
    /\ hist.op = ""
    /\ \E power \in HistPowers, pressure \in HistPressures, mode \in HistModes :
          do_get_mass_flow(power, pressure, mode)
    /\ hist' = ret'

later_get_mass_flow ==
    /\ hist.op # ""
    /\ \E power \in HistPowers, pressure \in HistPressures, mode \in HistModes :
          do_get_mass_flow(power, pressure, mode)
    /\ UNCHANGED hist

hist_get_power ==
    /\ \E massflow \in HistMasses, pressure \in HistPressures, mode \in HistModes :
          do_get_power(massflow, pressure, mode)
    /\ UNCHANGED hist

NextHist ==
    \/ init
    \/ first_get_mass_flow
    \/ later_get_mass_flow
    \/ hist_get_power

SpecHist == Init /\ [][NextHist]_vars

(***************************************************************************)
(* newton on its own: a function and a derivative given by their values at *)
(* the points 0..GridMax, a target, and the keyword values val0, valmin,   *)
(* valmax and imax.  The values of the function are whole numbers of half  *)
(* the tolerance, so that a residual below the tolerance need not be 0.    *)
(* The derivative is never 0.                                              *)
(***************************************************************************)
GridMax == 2
ValueMax == 2
MaxIMax == 2
TolValues == 2
Grid == 0..GridMax
Values == (-ValueMax)..ValueMax
DerivValues == {-1, 1}
Targets == {0}
Kwargs ==
    {kw \in [val0 : Grid, valmin : Grid, valmax : Grid, imax : 0..MaxIMax, tol : {TolValues}] :
        kw.valmin < kw.valmax}
NewtonCalls == [func : [Grid -> Values], deriv : [Grid -> DerivValues], k : Targets, kw : Kwargs]

InitNewton ==
    /\ pc = "new"
    /\ self = NoInstance
    /\ files = FilesAtStart
    /\ env \in NewtonCalls
    /\ ret = NoCall
    /\ hist = NoCall

\* a call newton(func, deriv, params, k, val0=, valmin=, valmax=, imax=)
call_newton ==
    /\ pc = "new"
    /\ LET r == newton_kwargs("values", "values_deriv", <<env.func, env.deriv>>, env.k, env.kw)
       IN ret' = [op |-> "newton", out |-> Value(r.val), converged |-> r.converged,
                  i |-> r.i, res |-> r.res]
    /\ pc' = "done"
    /\ UNCHANGED <<self, files, env, hist>>

NextNewton ==
    call_newton

SpecNewton == InitNewton /\ [][NextNewton]_vars

(***************************************************************************)
(* Properties.  They speak of the last call (ret) of a constructed         *)
(* instance.                                                               *)
(***************************************************************************)
RetArg == ret.args[1]
RetPressure == ret.args[2]
RetMode == ret.args[3]
ValidMode(mode) == mode \in {"charging", "discharging"}
MaxMassFlow(mode) ==
    IF mode = "charging" THEN self.massflow_charge_max ELSE self.massflow_discharge_max
Threshold(mode) == Scale(self.massflow_min_rel, MaxMassFlow(mode))
NominalPower(mode) ==
    IF mode = "charging" THEN self.power_nominal_charge ELSE self.power_nominal_discharge
NetworkOf(mode) == IF mode = "charging" THEN "charge" ELSE "discharge"
DesignPath(mode) == IF mode = "charging" THEN "charge_design" ELSE "discharge_design"
SplineOf(mode) == IF mode = "charging" THEN self.spline_charge ELSE self.spline_discharge
Rejected == IF ret.op = "get_mass_flow" THEN Tuple(0, 0) ELSE Value(0)
OutOfRange(pressure) == pressure < self.p_min - Margin \/ pressure > self.p_max + Margin

\* the evaluation of the last get_mass_flow call: the off-design solve
\* (simulation) or the inversion of the surface (spline)
RawSolve ==
    solve(NetworkOf(RetMode), "offdesign", files[DesignPath(RetMode)],
          Set(RetArg), Set(RetPressure), NaN)
RawNewton ==
    newton("reverse_2d", "reverse_2d_deriv",
           <<SplineOf(RetMode), RetPressure,
             IF RetMode = "charging" THEN RetArg ELSE -RetArg>>, 0)
\* the last call was a get_mass_flow call whose evaluation resolved a mass flow
Resolved ==
    /\ pc = "ready"
    /\ ret.op = "get_mass_flow"
    /\ ValidMode(RetMode)
    /\ ~OutOfRange(RetPressure)
    /\ \/ /\ self.method = "tespy"
          /\ abs(RetArg) >= abs(Div(NominalPower(RetMode), 100))
          /\ ~RawSolve.raised
          /\ RawSolve.res <= ResLimit
       \/ /\ self.method = "spline"
          /\ RawNewton.converged
RawMassFlow == IF self.method = "tespy" THEN RawSolve.m_val ELSE RawNewton.val

\* C1: a call with a pressure below p_min - 1e-4 or above p_max + 1e-4 returns
\* the rejection (0, 0) from get_mass_flow and 0 from get_power, whatever the
\* other arguments, the mode (valid or not) and the method, and runs no solve.
PressureOutOfRangeRejected ==
    (pc = "ready" /\ ret.op \in {"get_mass_flow", "get_power"} /\ OutOfRange(RetPressure))
        => (ret.out = Rejected /\ ret.solves = 0)
\* a get_power call above p_max + 1e-4 with an invalid mode on an instance
\* with an invalid method
PressureOutOfRangeReached ==
    /\ pc = "ready"
    /\ ret.op = "get_power"
    /\ RetPressure > self.p_max + Margin
    /\ RetMode = "idle"
    /\ self.method = "lut"
    /\ RetArg > 0
    /\ ret.out = Value(0)

\* C2, as claimed: a call with a mode other than 'charging' and 'discharging'
\* raises ValueError, for every pressure.
InvalidModeAlwaysRaises ==
    (pc = "ready" /\ ret.op \in {"get_mass_flow", "get_power"} /\ ~ValidMode(RetMode))
        => (ret.out.kind = "raise" /\ ret.out.exc = "ValueError")
\* C2, amended: a call with a pressure within [p_min - 1e-4, p_max + 1e-4] and
\* a mode other than 'charging' and 'discharging' raises ValueError and runs
\* no solve; with method 'tespy' or 'spline' it is the error about the mode.
InvalidModeRaisesInRange ==
    (/\ pc = "ready"
     /\ ret.op \in {"get_mass_flow", "get_power"}
     /\ ~ValidMode(RetMode)
     /\ ~OutOfRange(RetPressure))
        => /\ ret.out.kind = "raise"
           /\ ret.out.exc = "ValueError"
           /\ ret.solves = 0
           /\ self.method \in {"tespy", "spline"} =>
                 ret.out.msg \in {"Mode must be charging or discharging.",
                                  "Mode must be charge or discharge."}
\* a get_mass_flow call of the spline method at nominal pressure with mode 'idle'
InvalidModeReached ==
    /\ pc = "ready"
    /\ ret.op = "get_mass_flow"
    /\ self.method = "spline"
    /\ RetMode = "idle"
    /\ RetPressure = self.p_nom
    /\ ret.out.kind = "raise"

\* C3: when the mass flow resolved for (power, pressure, mode) exceeds the
\* maximum mass flow of the mode, get_mass_flow returns exactly
\* (maximum, get_power(maximum, pressure, mode)), with both methods, in both
\* modes and after any calls before.
CeilingClamp ==
    (Resolved /\ RawMassFlow > MaxMassFlow(RetMode))
        => LET g == get_power(self, MaxMassFlow(RetMode), RetPressure, RetMode)
           IN /\ g.ret.kind = "value"
              /\ ret.out = Tuple(MaxMassFlow(RetMode), g.ret.val[1])

\* C4: when the mass flow resolved has a magnitude below massflow_min_rel times
\* the maximum mass flow of the mode, both values returned are 0; no mass flow
\* other than 0 with a magnitude below that threshold is ever returned.
ThresholdReject ==
    /\ (Resolved /\ abs(RawMassFlow) < Threshold(RetMode)) => ret.out = Tuple(0, 0)
    /\ (/\ pc = "ready"
        /\ ret.op = "get_mass_flow"
        /\ ValidMode(RetMode)
        /\ ret.out.kind # "raise")
           => ~(ret.out.val[1] # 0 /\ abs(ret.out.val[1]) < Threshold(RetMode))

\* C5: two get_mass_flow calls with the same (power, pressure, mode) on one
\* instance return the same, whatever calls were made between them (hist is
\* the first get_mass_flow call of the instance, ret the last call).
NoHiddenStateDrift ==
    (pc = "ready" /\ ret.op = "get_mass_flow" /\ hist.op = "get_mass_flow"
     /\ ret.args = hist.args)
        => ret.out = hist.out

\* C6: when the pressure is in range, the evaluation converges and the mass
\* flow resolved lies within [massflow_min_rel * maximum, maximum],
\* get_mass_flow returns the pair (that mass flow, the power it was called with).
InRangeResult ==
    (/\ Resolved
     /\ RawMassFlow >= Threshold(RetMode)
     /\ RawMassFlow <= MaxMassFlow(RetMode))
        => ret.out = Tuple(RawMassFlow, RetArg)

\* C7: with the simulation method, a solve that raises or does not converge
\* is reported as the zero result by get_mass_flow and by get_power, in both
\* modes, and no exception of the solver leaves the call.
SolverFailureContained ==
    (pc = "ready" /\ ret.op \in {"get_mass_flow", "get_power"} /\ self.method = "tespy")
        => /\ ret.out.kind = "raise" => ret.out.exc = "ValueError"
           /\ (/\ ret.solves > 0
               /\ env.fault.kind # "none"
               /\ RetPressure = env.fault.at) => ret.out = Rejected

\* C8: with the spline method, for a mass flow and an accepted pressure inside
\* the table and for both modes, get_mass_flow of the evaluated power gives the
\* mass flow back within the relative tolerance 1e-5, and get_power returns the
\* evaluated power.
SplineRoundTrip ==
    (/\ pc = "ready"
     /\ ret.op = "get_power"
     /\ self.method = "spline"
     /\ ValidMode(RetMode)
     /\ ~OutOfRange(RetPressure)
     /\ RetArg > SplineOf(RetMode).x1[1] /\ RetArg < Last(SplineOf(RetMode).x1)
     /\ RetPressure > SplineOf(RetMode).x2[1] /\ RetPressure < Last(SplineOf(RetMode).x2))
        => LET val == ev(SplineOf(RetMode), RetArg, RetPressure, 0)
               back == get_mass_flow(self, val, RetPressure, RetMode).ret
           IN /\ back.kind = "value"
              /\ abs(back.val[1] - RetArg) <= (abs(RetArg) - 1) \div RelTolDen
              /\ ret.out = Value(val)

\* C9: for an accepted pressure, a valid mode and both methods, get_power of a
\* mass flow above the maximum of the mode returns what get_power of the
\* maximum returns, with exactly one get_power call more.  Stated for the
\* calls the check of the source takes for above the maximum (by more than
\* 1e-4) and whose solves do not fail.
GetPowerCeilingClamp ==
    (/\ pc = "ready"
     /\ ret.op = "get_power"
     /\ self.method \in {"tespy", "spline"}
     /\ ValidMode(RetMode)
     /\ ~OutOfRange(RetPressure)
     /\ ~(env.fault.kind # "none" /\ RetPressure = env.fault.at)
     /\ RetArg > MaxMassFlow(RetMode) + Margin)
        => /\ ret.out = get_power(self, MaxMassFlow(RetMode), RetPressure, RetMode).ret
           /\ ret.get_power = 2

\* the design state of the network of a mode: solved at nominal power and
\* nominal pressure with the pipe length set to the minimum well depth
DesignState(mode) ==
    [nw |-> NetworkOf(mode),
     L |-> Set(self.min_well_depth),
     P |-> Set(NominalPower(mode)),
     p |-> Set(self.p_nom),
     m_val |-> plant_mass_flow(NetworkOf(mode), NominalPower(mode), self.p_nom)]
\* C10: once the instance is constructed, 'charge_design' and
\* 'discharge_design' hold the design state of the network of their mode,
\* solved with the pipe length of that network set to the minimum well depth,
\* and no off-design solve runs before they are saved.
DesignStatesPersisted ==
    /\ pc = "ready" =>
          /\ files["charge_design"] = DesignState("charging")
          /\ files["discharge_design"] = DesignState("discharging")
          /\ self.tespy_charge.L = Set(self.min_well_depth)
          /\ self.tespy_discharge.L = Set(self.min_well_depth)
    /\ ret.solves > 0 =>
          /\ files["charge_design"].nw # "none"
          /\ files["discharge_design"].nw # "none"

\* C11: newton returns after at most imax + 1 updates; what it returns is
\* either a value within [valmin, valmax] whose residual |k - f(x)| is below
\* the tolerance, or 0 for no convergence; and it returns no convergence only
\* when no iteration it ran has computed a residual below the tolerance.
NewtonPostcondition ==
    (pc = "done" /\ ret.op = "newton")
        => /\ ret.i <= env.kw.imax + 1
           /\ ret.converged =>
                 /\ ret.out.val[1] >= env.kw.valmin
                 /\ ret.out.val[1] <= env.kw.valmax
                 /\ abs(env.k - env.func[ret.out.val[1]]) < env.kw.tol
           /\ ~ret.converged =>
                 /\ ret.out = Value(0)
                 /\ ret.i > env.kw.imax
                 /\ abs(ret.res) >= env.kw.tol


====
